---- MODULE Spec2Model ----
(***************************************************************************)
(* The campaign-data pipeline of limpieza_final.py (the primary variant)   *)
(* and limpieza_borrador.py (the draft variant): cargar_datos,             *)
(* limpiar_datos, transformar_datos, the CSV save and                      *)
(* generar_visualizaciones, run once by the __main__ driver.               *)
(*                                                                         *)
(* A DataFrame is a sequence of columns [name, dtype, vals]; a column name *)
(* is a sequence of characters; a cell is <<>> when missing (NaN, NaT,     *)
(* None) and <<x>> otherwise.  Numbers are fixed-point: the integer n      *)
(* stands for n / Unit, which keeps the mean of two middle values exact.   *)
(* A text cell is a record [txt, ts]: the text and what the timestamp      *)
(* parser makes of it (<<>> when it does not parse).  A timestamp is a     *)
(* number of hours since 2020-01-01 00:00.                                 *)
(***************************************************************************)
EXTENDS Integers, Sequences, FiniteSets, TLC

VARIABLES variant, pc, disk, df, exc, charts, stdout

vars == <<variant, pc, disk, df, exc, charts, stdout>>

(* ------------------------------ names -------------------------------- *)

UpperCase == <<"A","B","C","D","E","F","G","H","I","J","K","L","M",
               "N","O","P","Q","R","S","T","U","V","W","X","Y","Z">>

LowerCase == <<"a","b","c","d","e","f","g","h","i","j","k","l","m",
               "n","o","p","q","r","s","t","u","v","w","x","y","z">>

\* str.lower() on one character
lower(c) ==
    IF \E i \in 1..Len(UpperCase) : UpperCase[i] = c
    THEN LowerCase[CHOOSE i \in 1..Len(UpperCase) : UpperCase[i] = c]
    ELSE c

\* df.columns.str.lower()
str_lower(name) == [i \in 1..Len(name) |-> lower(name[i])]

\* .str.replace(" ", "_")
str_replace(name) == [i \in 1..Len(name) |-> IF name[i] = " " THEN "_" ELSE name[i]]

fecha_registro == <<"f","e","c","h","a","_","r","e","g","i","s","t","r","o">>

fecha_contacto == <<"f","e","c","h","a","_","c","o","n","t","a","c","t","o">>

ocupacion == <<"o","c","u","p","a","c","i","o","n">>

estado_civil == <<"e","s","t","a","d","o","_","c","i","v","i","l">>

educacion == <<"e","d","u","c","a","c","i","o","n">>

duracion_llamada == <<"d","u","r","a","c","i","o","n","_","l","l","a","m","a","d","a">>

dias_desde_registro == <<"d","i","a","s","_","d","e","s","d","e","_","r","e","g","i","s","t","r","o">>

categoria_duracion == <<"c","a","t","e","g","o","r","i","a","_","d","u","r","a","c","i","o","n">>

suscribio == <<"s","u","s","c","r","i","b","i","o">>

age == <<"a","g","e">>

ano_mes_contacto == <<"a","n","o","_","m","e","s","_","c","o","n","t","a","c","t","o">>

tipo_contacto == <<"t","i","p","o","_","c","o","n","t","a","c","t","o">>

resultado_campana_anterior == <<"r","e","s","u","l","t","a","d","o","_","c","a","m","p","a","n","a","_","a","n","t","e","r","i","o","r">>

ingreso == <<"i","n","g","r","e","s","o">>

tasa_empleo == <<"t","a","s","a","_","e","m","p","l","e","o">>

\* the columns the primary variant drops
columnas_a_eliminar_final ==
    {<<"d","a","y","_","o","f","_","w","e","e","k">>,
     <<"d","a","y","_","n","a","m","e">>,
     <<"y","e","a","r">>,
     <<"m","o","n","t","h">>,
     <<"d","a","y">>,
     <<"l","a","t","i","t","u","d">>,
     <<"l","o","n","g","i","t","u","d">>}

\* the columns the draft variant drops
columnas_a_eliminar_borrador ==
    {<<"d","a","y","_","o","f","_","w","e","e","k">>,
     <<"d","a","y","_","n","a","m","e">>,
     <<"y","e","a","r">>,
     <<"m","o","n","t","h">>,
     <<"d","a","y">>}

columnas_a_eliminar(v) ==
    IF v = "final" THEN columnas_a_eliminar_final ELSE columnas_a_eliminar_borrador

\* the rename mapping, as <<source name, target name>> pairs
columnas_traducidas == {
    <<<<"j","o","b">>,
      <<"o","c","u","p","a","c","i","o","n">>>>,
    <<<<"m","a","r","i","t","a","l">>,
      <<"e","s","t","a","d","o","_","c","i","v","i","l">>>>,
    <<<<"e","d","u","c","a","t","i","o","n">>,
      <<"e","d","u","c","a","c","i","o","n">>>>,
    <<<<"h","o","u","s","i","n","g">>,
      <<"t","i","e","n","e","_","h","i","p","o","t","e","c","a">>>>,
    <<<<"l","o","a","n">>,
      <<"t","i","e","n","e","_","p","r","e","s","t","a","m","o">>>>,
    <<<<"c","o","n","t","a","c","t">>,
      <<"t","i","p","o","_","c","o","n","t","a","c","t","o">>>>,
    <<<<"d","u","r","a","t","i","o","n">>,
      <<"d","u","r","a","c","i","o","n","_","l","l","a","m","a","d","a">>>>,
    <<<<"c","a","m","p","a","i","g","n">>,
      <<"c","o","n","t","a","c","t","o","s","_","a","c","t","u","a","l","e","s">>>>,
    <<<<"p","d","a","y","s">>,
      <<"d","i","a","s","_","u","l","t","i","m","o","_","c","o","n","t","a","c","t","o">>>>,
    <<<<"p","r","e","v","i","o","u","s">>,
      <<"c","o","n","t","a","c","t","o","s","_","p","r","e","v","i","o","s">>>>,
    <<<<"p","o","u","t","c","o","m","e">>,
      <<"r","e","s","u","l","t","a","d","o","_","c","a","m","p","a","n","a","_","a","n","t","e","r","i","o","r">>>>,
    <<<<"e","m","p","_","v","a","r","_","r","a","t","e">>,
      <<"t","a","s","a","_","e","m","p","l","e","o">>>>,
    <<<<"c","o","n","s","_","p","r","i","c","e","_","i","d","x">>,
      <<"i","n","d","i","c","e","_","p","r","e","c","i","o","_","c","o","n","s","u","m","i","d","o","r">>>>,
    <<<<"c","o","n","s","_","c","o","n","f","_","i","d","x">>,
      <<"i","n","d","i","c","e","_","c","o","n","f","i","a","n","z","a","_","c","o","n","s","u","m","i","d","o","r">>>>,
    <<<<"e","u","r","i","b","o","r","3","m">>,
      <<"t","a","s","a","_","i","n","t","e","r","e","s","_","3","m">>>>,
    <<<<"n","r","_","e","m","p","l","o","y","e","d">>,
      <<"n","u","m","_","e","m","p","l","e","a","d","o","s">>>>,
    <<<<"y">>,
      <<"s","u","s","c","r","i","b","i","o">>>>,
    <<<<"i","n","c","o","m","e">>,
      <<"i","n","g","r","e","s","o">>>>,
    <<<<"k","i","d","h","o","m","e">>,
      <<"h","i","j","o","s","_","n","i","n","o","s">>>>,
    <<<<"t","e","e","n","h","o","m","e">>,
      <<"h","i","j","o","s","_","a","d","o","l","e","s","c","e","n","t","e","s">>>>,
    <<<<"d","t","_","c","u","s","t","o","m","e","r">>,
      <<"f","e","c","h","a","_","r","e","g","i","s","t","r","o">>>>,
    <<<<"n","u","m","w","e","b","v","i","s","i","t","s","m","o","n","t","h">>,
      <<"v","i","s","i","t","a","s","_","w","e","b","_","m","e","s">>>>,
    <<<<"p","d","a","y","s","_","c","a","t","e","g","o","r","y">>,
      <<"c","a","t","e","g","o","r","i","a","_","d","i","a","s","_","u","l","t","i","m","o","_","c","o","n","t","a","c","t","o">>>>,
    <<<<"y","e","a","r","_","r","e","g","i","s","t","e","r","e","d">>,
      <<"a","n","o","_","r","e","g","i","s","t","r","o">>>>,
    <<<<"m","o","n","t","h","_","r","e","g","i","s","t","e","r","e","d">>,
      <<"m","e","s","_","r","e","g","i","s","t","r","o">>>>,
    <<<<"c","o","n","t","a","c","t","_","d","a","t","e">>,
      <<"f","e","c","h","a","_","c","o","n","t","a","c","t","o">>>>}

categorias == <<estado_civil, educacion, ocupacion, tipo_contacto, resultado_campana_anterior>>

(* ------------------------------ cells -------------------------------- *)

\* fixed-point scale of the numbers: n stands for n / Unit
Unit == 2 * 2

NA == <<>>

isna(cell) == Len(cell) = 0

\* a text cell that is no timestamp
Text(s) == <<[txt |-> s, ts |-> NA]>>

\* a text cell that parses as the timestamp t
DateText(t) == <<[txt |-> "timestamp", ts |-> <<t>>]>>

(* ---------------------------- DataFrame ------------------------------ *)

Column(n, d, vs) == [name |-> n, dtype |-> d, vals |-> vs]

HasCol(frame, n) == \E i \in 1..Len(frame) : frame[i].name = n

\* df[n]
Col(frame, n) == frame[CHOOSE i \in 1..Len(frame) : frame[i].name = n]

NRows(frame) == IF Len(frame) = 0 THEN 0 ELSE Len(frame[1].vals)

\* df[n] = vs: in place when the column exists, appended last otherwise
SetCol(frame, n, d, vs) ==
    IF HasCol(frame, n)
    THEN [i \in 1..Len(frame) |->
            IF frame[i].name = n THEN Column(n, d, vs) ELSE frame[i]]
    ELSE Append(frame, Column(n, d, vs))

\* what a stage hands back: the frame, or the exception it raised
Return(frame) == [raised |-> "none", frame |-> frame]

Raise(e, frame) == [raised |-> e, frame |-> frame]

(* --------------------------- limpiar_datos --------------------------- *)

\* df.drop(columns=labels, inplace=True, errors='ignore')
drop(frame, labels) == SelectSeq(frame, LAMBDA c : c.name \notin labels)

\* df.columns = df.columns.str.lower().str.replace(" ", "_")
snake_case(frame) ==
    [i \in 1..Len(frame) |->
        [frame[i] EXCEPT !.name = str_replace(str_lower(frame[i].name))]]

\* defective form: the entry for "y" missing from the mapping in use
traducir_sin_y(n) ==
    IF n /= <<"y">> /\ \E p \in columnas_traducidas : p[1] = n
    THEN (CHOOSE p \in columnas_traducidas : p[1] = n)[2]
    ELSE n

\* one name through the rename mapping
traducir(n) ==
    IF \E p \in columnas_traducidas : p[1] = n
    THEN (CHOOSE p \in columnas_traducidas : p[1] = n)[2]
    ELSE n

\* df.rename(columns=columnas_traducidas, inplace=True)
rename(frame) ==
    [i \in 1..Len(frame) |-> [frame[i] EXCEPT !.name = traducir(frame[i].name)]]

\* hours from 2020-01-01 00:00 back to the Unix epoch
UnixEpoch == 0 - 18262 * 24

\* pd.to_datetime(column, errors='coerce') on one cell
to_datetime_cell(dtype, cell) ==
    IF isna(cell) THEN NA
    ELSE IF dtype = "datetime" THEN cell
    ELSE IF dtype = "numeric"
         THEN (IF cell[1] >= 0 THEN <<UnixEpoch>> ELSE <<UnixEpoch - 1>>)
    ELSE cell[1].ts

\* df[n] = pd.to_datetime(df[n], errors='coerce')
to_datetime(frame, n) ==
    LET c == Col(frame, n)
    IN  SetCol(frame, n, "datetime",
               [r \in 1..Len(c.vals) |-> to_datetime_cell(c.dtype, c.vals[r])])

\* the loop over categorias: astype('category') for the columns present
RECURSIVE astype_category(_, _)
astype_category(frame, k) ==
    IF k > Len(categorias) THEN frame
    ELSE IF HasCol(frame, categorias[k])
         THEN astype_category(
                  SetCol(frame, categorias[k], "category", Col(frame, categorias[k]).vals),
                  k + 1)
         ELSE astype_category(frame, k + 1)

\* defective form: ocupacion left out of the subset
KeptRows_sin_ocupacion(frame, subset) ==
    SelectSeq([r \in 1..NRows(frame) |-> r],
              LAMBDA r : \A i \in 1..Len(frame) :
                            (frame[i].name \in subset /\ frame[i].name /= ocupacion)
                                => ~isna(frame[i].vals[r]))

\* the rows with no missing value in the columns of subset
KeptRows(frame, subset) ==
    SelectSeq([r \in 1..NRows(frame) |-> r],
              LAMBDA r : \A i \in 1..Len(frame) :
                            frame[i].name \in subset => ~isna(frame[i].vals[r]))

\* df.dropna(subset=subset), every named column being present
dropna(frame, subset) ==
    LET keep == KeptRows(frame, subset)
    IN  [i \in 1..Len(frame) |->
            [frame[i] EXCEPT !.vals = [k \in 1..Len(keep) |-> frame[i].vals[keep[k]]]]]

\* the numbers of a column, missing cells left out
Present(vals) == SelectSeq(vals, LAMBDA cell : ~isna(cell))

\* the k-th smallest of the present cells xs
Kth(xs, k) ==
    LET v == CHOOSE x \in {xs[i][1] : i \in 1..Len(xs)} :
                 /\ Cardinality({i \in 1..Len(xs) : xs[i][1] < x}) < k
                 /\ Cardinality({i \in 1..Len(xs) : xs[i][1] <= x}) >= k
    IN  v

\* defective form: the lower middle value instead of the mean of the two middle values
median_baja(vals) ==
    LET xs == Present(vals)
        n  == Len(xs)
    IN  IF n = 0 THEN NA ELSE <<Kth(xs, (n + 1) \div 2)>>

\* Series.median(): missing when nothing is present, the middle value, or the
\* mean of the two middle values
median(vals) ==
    LET xs == Present(vals)
        n  == Len(xs)
    IN  IF n = 0 THEN NA
        ELSE IF n % 2 = 1 THEN <<Kth(xs, (n + 1) \div 2)>>
        ELSE <<(Kth(xs, n \div 2) + Kth(xs, n \div 2 + 1)) \div 2>>

\* Series.fillna(value): a missing value fills nothing
fillna_cells(vals, value) ==
    [r \in 1..Len(vals) |-> IF isna(vals[r]) /\ ~isna(value) THEN value ELSE vals[r]]

\* df.fillna(df.median(numeric_only=True), inplace=True)
fillna_median(frame) ==
    [i \in 1..Len(frame) |->
        IF frame[i].dtype = "numeric"
        THEN [frame[i] EXCEPT !.vals = fillna_cells(frame[i].vals, median(frame[i].vals))]
        ELSE frame[i]]

claves == {ocupacion, estado_civil, educacion}

limpiar_datos(v, frame) ==
    LET d1 == rename(snake_case(drop(frame, columnas_a_eliminar(v))))
    IN  IF ~HasCol(d1, fecha_registro) THEN Raise("KeyError", d1)
        ELSE LET d2 == to_datetime(d1, fecha_registro)
        IN  IF ~HasCol(d2, fecha_contacto) THEN Raise("KeyError", d2)
        ELSE LET d3 == to_datetime(d2, fecha_contacto)
                 d4 == IF v = "final" THEN astype_category(d3, 1) ELSE d3
        IN  IF \E k \in claves : ~HasCol(d4, k) THEN Raise("KeyError", d4)
            ELSE Return(fillna_median(dropna(d4, claves)))

(* ------------------------- transformar_datos ------------------------- *)

HoursPerDay == 24

\* Timedelta.days: whole days, rounded down
days(delta) == delta \div HoursPerDay

\* (df['fecha_contacto'] - df['fecha_registro']).dt.days on one row
dias_cell(contacto, registro) ==
    IF isna(contacto) \/ isna(registro) THEN NA
    ELSE <<days(contacto[1] - registro[1]) * Unit>>

\* float('inf'): above every number of the model
inf == 1000000000

bins == <<0, 100 * Unit, 300 * Unit, inf>>

labels == <<"Corta", "Media", "Larga">>

\* bins.searchsorted(x, side='right'): how many edges are <= x
searchsorted(x) == Cardinality({i \in 1..Len(bins) : bins[i] <= x})

\* defective form: right=True, the default: each edge belongs to the lower bucket
cut_right(cell) ==
    IF isna(cell) THEN NA
    ELSE LET ids == Cardinality({i \in 1..Len(bins) : bins[i] < cell[1]})
         IN  IF ids = 0 \/ ids = Len(bins) THEN NA ELSE Text(labels[ids])

\* pd.cut(x, bins, labels, right=False) on one cell
cut(cell) ==
    IF isna(cell) THEN NA
    ELSE LET ids == searchsorted(cell[1])
         IN  IF ids = 0 \/ ids = Len(bins) THEN NA ELSE Text(labels[ids])

\* df['dias_desde_registro'] = (df['fecha_contacto'] - df['fecha_registro']).dt.days
con_dias(frame) ==
    SetCol(frame, dias_desde_registro, "numeric",
           [r \in 1..NRows(frame) |->
               dias_cell(Col(frame, fecha_contacto).vals[r],
                         Col(frame, fecha_registro).vals[r])])

\* df['categoria_duracion'] = pd.cut(df['duracion_llamada'], ...)
con_categoria(frame) ==
    SetCol(frame, categoria_duracion, "category",
           [r \in 1..NRows(frame) |-> cut(Col(frame, duracion_llamada).vals[r])])

\* defective form: missing durations filled with 0 instead of the median
rellenar_con_cero(frame) ==
    LET c == Col(frame, duracion_llamada)
    IN  SetCol(frame, duracion_llamada, c.dtype, fillna_cells(c.vals, <<0>>))

\* the draft's df['duracion_llamada'].fillna(df['duracion_llamada'].median(), inplace=True)
rellenar_duracion(frame) ==
    LET c == Col(frame, duracion_llamada)
    IN  SetCol(frame, duracion_llamada, c.dtype, fillna_cells(c.vals, median(c.vals)))

fechas == {fecha_contacto, fecha_registro}

transformar_datos(v, frame) ==
    IF \E f \in fechas : ~HasCol(frame, f) THEN Raise("KeyError", frame)
    ELSE LET d0 == IF v = "borrador" THEN dropna(frame, fechas) ELSE frame
             d1 == con_dias(d0)
         IN  IF ~HasCol(d1, duracion_llamada) THEN Raise("KeyError", d1)
             ELSE LET d2 == IF v = "borrador" THEN rellenar_duracion(d1) ELSE d1
                  IN  Return(con_categoria(d2))

(* ------------------------------- files ------------------------------- *)

ruta_csv == "dataset_final.csv"

ruta_procesado == "dataset_final_procesado.csv"

Paths == {ruta_csv, ruta_procesado}

\* where the driver saves: the primary variant over its input, the draft beside it
ruta_salida(v) == IF v = "final" THEN ruta_csv ELSE ruta_procesado

Absent == [kind |-> "absent", table |-> <<>>]

Empty == [kind |-> "empty", table |-> <<>>]

Csv(t) == [kind |-> "csv", table |-> t]

\* a column of a CSV file: its header, whether its fields are numbers, its fields
Field(n, num, vs) == [name |-> n, numeric |-> num, vals |-> vs]

\* pd.read_csv: a column of numbers, or of nothing but empty fields, is numeric
read_csv(t) ==
    [i \in 1..Len(t) |->
        Column(t[i].name,
               IF t[i].numeric \/ \A r \in 1..Len(t[i].vals) : isna(t[i].vals[r])
               THEN "numeric" ELSE "object",
               t[i].vals)]

\* df.to_csv(path, index=False): timestamps are written as text
to_csv(frame) ==
    [i \in 1..Len(frame) |->
        Field(frame[i].name, frame[i].dtype = "numeric",
              IF frame[i].dtype = "datetime"
              THEN [r \in 1..Len(frame[i].vals) |->
                      IF isna(frame[i].vals[r]) THEN NA
                      ELSE DateText(frame[i].vals[r][1])]
              ELSE frame[i].vals)]

(* --------------------------- cargar_datos ---------------------------- *)

None == <<>>

\* defective form: no try/except around pd.read_csv
cargar_datos_sin_except(file) ==
    IF file.kind = "absent"
    THEN [raised |-> "FileNotFoundError", frame |-> None, out |-> <<>>]
    ELSE IF file.kind = "empty"
    THEN [raised |-> "EmptyDataError", frame |-> None, out |-> <<>>]
    ELSE [raised |-> "none", frame |-> read_csv(file.table),
          out |-> <<"Datos cargados correctamente.">>]

\* only FileNotFoundError is caught; an empty file raises EmptyDataError
cargar_datos(file) ==
    IF file.kind = "absent"
    THEN [raised |-> "none", frame |-> None, out |-> <<"Error: Archivo no encontrado.">>]
    ELSE IF file.kind = "empty"
    THEN [raised |-> "EmptyDataError", frame |-> None, out |-> <<>>]
    ELSE [raised |-> "none", frame |-> read_csv(file.table),
          out |-> <<"Datos cargados correctamente.">>]

(* ---------------------- generar_visualizaciones ---------------------- *)

\* the first hour of the month of timestamp t, for the months the model reaches
MonthStart(t) ==
    LET d == t \div HoursPerDay
    IN  IF d >= 60 THEN 60 * HoursPerDay
        ELSE IF d >= 31 THEN 31 * HoursPerDay
        ELSE IF d >= 0 THEN 0
        ELSE IF t >= UnixEpoch THEN UnixEpoch
        ELSE UnixEpoch - 31 * HoursPerDay

\* df['fecha_contacto'].dt.to_period('M').astype(str)
ano_mes(cell) ==
    IF isna(cell) THEN Text("NaT")
    ELSE <<[txt |-> "period", ts |-> <<MonthStart(cell[1])>>]>>

\* the plotting steps in order: the columns each reads, the charts it shows
pasos_final ==
    <<[lee |-> {categoria_duracion, suscribio}, muestra |-> 1],
      [lee |-> {age}, muestra |-> 1],
      [lee |-> {estado_civil, suscribio, educacion}, muestra |-> 2],
      [lee |-> {fecha_contacto, suscribio}, muestra |-> 1]>>

pasos_borrador ==
    <<[lee |-> {duracion_llamada}, muestra |-> 1],
      [lee |-> {ingreso}, muestra |-> 1],
      [lee |-> {suscribio, duracion_llamada}, muestra |-> 1],
      [lee |-> {duracion_llamada, ingreso, tasa_empleo, suscribio}, muestra |-> 1]>>

pasos(v) == IF v = "final" THEN pasos_final ELSE pasos_borrador

\* the charts shown from step k on, up to the first step that reads an absent column
RECURSIVE mostrados(_, _, _)
mostrados(v, frame, k) ==
    IF k > Len(pasos(v)) THEN 0
    ELSE IF \E n \in pasos(v)[k].lee : ~HasCol(frame, n) THEN 0
    ELSE pasos(v)[k].muestra + mostrados(v, frame, k + 1)

completo(v, frame) ==
    \A k \in 1..Len(pasos(v)) : \A n \in pasos(v)[k].lee : HasCol(frame, n)

generar_visualizaciones(v, frame) ==
    LET hechos == mostrados(v, frame, 1)
    IN  IF ~completo(v, frame)
        THEN [raised |-> "KeyError", frame |-> frame, charts |-> hechos]
        ELSE [raised |-> "none",
              frame |-> IF v = "final"
                        THEN SetCol(frame, ano_mes_contacto, "object",
                                    [r \in 1..NRows(frame) |->
                                        ano_mes(Col(frame, fecha_contacto).vals[r])])
                        ELSE frame,
              charts |-> hechos]

(* ----------------------- the files of the model ---------------------- *)

\* the headers of the modelled input file
Headers ==
    <<<<"J","o","b">>,
      <<"m","a","r","i","t","a","l">>,
      <<"e","d","u","c","a","t","i","o","n">>,
      <<"d","u","r","a","t","i","o","n">>,
      <<"D","t"," ","C","u","s","t","o","m","e","r">>,
      <<"c","o","n","t","a","c","t","_","d","a","t","e">>,
      <<"y">>,
      <<"a","g","e">>>>

\* further headers a file may carry
ExtraHeaders ==
    <<<<"y","e","a","r">>,
      <<"Y","e","a","r">>,
      <<"D","a","y"," ","N","a","m","e">>,
      <<"l","a","t","i","t","u","d">>,
      <<"I","n","c","o","m","e">>,
      <<"e","m","p","_","v","a","r","_","r","a","t","e">>>>

MaxRows == 3

MaxExtras == 2

MaxDur == 301

MaxNeg == 2

MaxDay == 2

HourStep == 6

Variants == {"final", "borrador"}

\* which key field of a row is empty, which duration it has, what its dates are
KeyPats == <<"ok", "job", "marital", "education">>

DurVals == <<NA, <<50 * Unit>>, <<300 * Unit>>>>

DatePats == <<"ok", "junk", "blank">>

\* 2020-03-01 00:00, sixty days after 2020-01-01
Marzo == 60 * HoursPerDay

\* a row of the input file: the fields under Headers, in order
Fila(job, marital, education, duration, registro, contacto) ==
    <<job, marital, education, duration, registro, contacto, <<1 * Unit>>, <<30 * Unit>>>>

FilaDe(k) ==
    Fila(IF KeyPats[k[1]] = "job" THEN NA ELSE Text("admin."),
         IF KeyPats[k[1]] = "marital" THEN NA ELSE Text("married"),
         IF KeyPats[k[1]] = "education" THEN NA ELSE Text("university.degree"),
         DurVals[k[2]],
         IF DatePats[k[3]] = "junk" THEN Text("n/a") ELSE DateText(0),
         IF DatePats[k[3]] = "blank" THEN NA ELSE DateText(Marzo))

\* the file with the rows filas under Headers; duration, y and age hold numbers
Tabla(filas) ==
    [i \in 1..Len(Headers) |->
        Field(Headers[i], i = 4 \/ i >= 7, [r \in 1..Len(filas) |-> filas[r][i]])]

\* a row with an empty key field has duration 50 and both dates well formed
RowKinds ==
    {k \in (1..Len(KeyPats)) \X (1..Len(DurVals)) \X (1..Len(DatePats)) :
        k[1] = 1 \/ (k[2] = 2 /\ k[3] = 1)}

Rank(k) == k[1] * 100 + k[2] * 10 + k[3]

\* files of up to MaxRows rows; no step reads the order of the rows, so one
\* order stands for each multiset of rows
TablasFilas ==
    UNION {{Tabla([r \in 1..n |-> FilaDe(s[r])]) :
              s \in {q \in [1..n -> RowKinds] :
                        \A r \in 1..(n - 1) : Rank(q[r]) <= Rank(q[r + 1])}} :
           n \in 1..MaxRows}

\* two-row files: one header left out or none, up to MaxExtras further columns
BaseFilas == <<FilaDe(<<1, 2, 1>>), FilaDe(<<1, 1, 1>>)>>

ExtraCol(j) == Field(ExtraHeaders[j], TRUE, <<NA, <<2020 * Unit>>>>)

TablasColumnas ==
    {SelectSeq(Tabla(BaseFilas), LAMBDA c : <<c.name>> /= omit)
        \o [j \in 1..Len(x) |-> ExtraCol(x[j])] :
     omit \in {<<>>} \cup {<<Headers[i]>> : i \in 1..Len(Headers)},
     x \in {q \in UNION {[1..n -> 1..Len(ExtraHeaders)] : n \in 0..MaxExtras} :
               \A r \in 1..(Len(q) - 1) : q[r] < q[r + 1]}}

\* one-row files over a range of durations, with the edges of the bins and inf
Duraciones == ((0 - MaxNeg * Unit)..(MaxDur * Unit)) \cup {inf}

TablasDuracion ==
    {Tabla(<<Fila(Text("admin."), Text("married"), Text("university.degree"),
                  <<d>>, DateText(0), DateText(Marzo))>>) : d \in Duraciones}

\* one-row files over dates with a time of day, unparseable and empty dates
Instantes ==
    {d * HoursPerDay + h : d \in 0..MaxDay, h \in {x \in 0..(HoursPerDay - 1) : x % HourStep = 0}}

Fechas == {NA, Text("n/a")} \cup {DateText(t) : t \in Instantes}

TablasFecha ==
    {Tabla(<<Fila(Text("admin."), Text("married"), Text("university.degree"),
                  <<250 * Unit>>, a, b)>>) : a \in Fechas, b \in Fechas}

Archivos ==
    {Absent, Empty}
    \cup {Csv(t) : t \in TablasFilas \cup TablasColumnas \cup TablasDuracion \cup TablasFecha}

(* ------------------------------ driver ------------------------------- *)

Init ==
    /\ variant \in Variants
    /\ pc = "inicio"
    /\ \E f \in Archivos : disk = [p \in Paths |-> IF p = ruta_csv THEN f ELSE Absent]
    /\ df = None
    /\ exc = "none"
    /\ charts = 0
    /\ stdout = <<>>

\* df = cargar_datos(ruta_csv); if df is not None: ...
Cargar ==
    /\ pc = "inicio"
    /\ LET r == cargar_datos(disk[ruta_csv])
       IN  /\ df' = r.frame
           /\ exc' = r.raised
           /\ stdout' = stdout \o r.out
           /\ pc' = IF r.raised /= "none" THEN "abortado"
                    ELSE IF r.frame = None THEN "fin"
                    ELSE "cargado"
    /\ UNCHANGED <<variant, disk, charts>>

\* df = limpiar_datos(df)
Limpiar ==
    /\ pc = "cargado"
    /\ LET r == limpiar_datos(variant, df)
       IN  /\ df' = r.frame
           /\ exc' = r.raised
           /\ stdout' = IF r.raised = "none"
                        THEN Append(stdout, "Datos limpiados y optimizados correctamente.")
                        ELSE stdout
           /\ pc' = IF r.raised = "none" THEN "limpio" ELSE "abortado"
    /\ UNCHANGED <<variant, disk, charts>>

\* df = transformar_datos(df)
Transformar ==
    /\ pc = "limpio"
    /\ LET r == transformar_datos(variant, df)
       IN  /\ df' = r.frame
           /\ exc' = r.raised
           /\ stdout' = IF r.raised = "none"
                        THEN Append(stdout, "Transformaciones aplicadas correctamente.")
                        ELSE stdout
           /\ pc' = IF r.raised = "none" THEN "transformado" ELSE "abortado"
    /\ UNCHANGED <<variant, disk, charts>>

\* defective form: the save left out of the driver
Guardar_omitido ==
    /\ pc = "transformado"
    /\ pc' = "guardado"
    /\ UNCHANGED <<variant, disk, df, exc, charts, stdout>>

\* df.to_csv(..., index=False), and the primary variant's message
Guardar ==
    /\ pc = "transformado"
    /\ disk' = [disk EXCEPT ![ruta_salida(variant)] = Csv(to_csv(df))]
    /\ stdout' = IF variant = "final"
                 THEN Append(stdout, "Dataset final guardado como 'dataset_final.csv'.")
                 ELSE stdout
    /\ pc' = "guardado"
    /\ UNCHANGED <<variant, df, exc, charts>>

\* generar_visualizaciones(df)
Visualizar ==
    /\ pc = "guardado"
    /\ LET r == generar_visualizaciones(variant, df)
       IN  /\ df' = r.frame
           /\ exc' = r.raised
           /\ charts' = r.charts
           /\ pc' = IF r.raised = "none" THEN "fin" ELSE "abortado"
    /\ UNCHANGED <<variant, disk, stdout>>

Next == Cargar \/ Limpiar \/ Transformar \/ Guardar \/ Visualizar

Spec == Init /\ [][Next]_vars

(* ------------------------------ claims ------------------------------- *)

\* the frame cargar_datos read, while the input file is still as it was
Entrada == read_csv(disk[ruta_csv].table)

\* the name limpiar_datos gives the input column called n
Destino(n) == traducir(str_replace(str_lower(n)))

\* the rows of the loaded frame with every key field present
FilasConClaves(entrada) ==
    {r \in 1..NRows(entrada) :
        \A i \in 1..Len(entrada) :
            Destino(entrada[i].name) \in claves => ~isna(entrada[i].vals[r])}

\* the rows of the loaded frame with an empty job field
FilasSinJob(entrada) ==
    {r \in 1..NRows(entrada) :
        \E i \in 1..Len(entrada) :
            Destino(entrada[i].name) = ocupacion /\ isna(entrada[i].vals[r])}

\* C1: once limpiar_datos has returned, no row of the table has a missing
\* ocupacion, estado_civil or educacion, and the rows left are the input rows
\* with all three present: no input row with a missing job is among them.
C1_SinNulosEnClaves ==
    pc = "limpio" =>
        \A entrada \in {Entrada} :
            /\ \A k \in claves :
                  /\ HasCol(df, k)
                  /\ \A r \in 1..NRows(df) : ~isna(Col(df, k).vals[r])
            /\ NRows(df) = Cardinality(FilasConClaves(entrada))
            /\ NRows(df) <= NRows(entrada) - Cardinality(FilasSinJob(entrada))

C1_Witness ==
    /\ pc = "limpio"
    /\ FilasSinJob(Entrada) /= {}
    /\ NRows(df) >= 1

\* the cells of a column of the loaded frame in the rows vivas, in order
Supervivientes(vals, vivas) ==
    LET keep == SelectSeq([r \in 1..Len(vals) |-> r], LAMBDA r : r \in vivas)
    IN  [k \in 1..Len(keep) |-> vals[keep[k]]]

\* the median of the present cells, by sorting them
MedianaOrdenada(vals) ==
    LET xs == SortSeq([k \in 1..Len(Present(vals)) |-> Present(vals)[k][1]], <)
        n  == Len(xs)
    IN  IF n = 0 THEN NA
        ELSE IF n % 2 = 1 THEN <<xs[(n + 1) \div 2]>>
        ELSE <<(xs[n \div 2] + xs[n \div 2 + 1]) \div 2>>

\* C2: once limpiar_datos has returned, every cell of a numeric column that
\* was missing holds the median of the column's present values over the rows
\* that survived the row drop, every other cell is as it was, and a numeric
\* column with a present value among those rows has no missing cell.
C2_MedianaTrasDescarte ==
    pc = "limpio" =>
        \A entrada \in {Entrada} :
        \A vivas \in {FilasConClaves(entrada)} :
        \A i \in 1..Len(entrada) :
            (entrada[i].dtype = "numeric" /\ HasCol(df, Destino(entrada[i].name))) =>
                \A antes \in {Supervivientes(entrada[i].vals, vivas)} :
                \A despues \in {Col(df, Destino(entrada[i].name)).vals} :
                \A m \in {MedianaOrdenada(antes)} :
                    /\ Len(despues) = Len(antes)
                    /\ \A r \in 1..Len(antes) :
                          IF isna(antes[r]) THEN despues[r] = m
                          ELSE despues[r] = antes[r]
                    /\ (\E r \in 1..Len(antes) : ~isna(antes[r])) =>
                          \A r \in 1..Len(despues) : ~isna(despues[r])

\* a filled cell, where a dropped row holds a value that would move the median
C2_Witness ==
    /\ pc = "limpio"
    /\ \E entrada \in {Entrada} :
       \E vivas \in {FilasConClaves(entrada)} :
       \E i \in 1..Len(entrada) :
          /\ entrada[i].dtype = "numeric"
          /\ HasCol(df, Destino(entrada[i].name))
          /\ \E antes \in {Supervivientes(entrada[i].vals, vivas)} :
                /\ \E r \in 1..Len(antes) : isna(antes[r])
                /\ \E r \in 1..Len(antes) : ~isna(antes[r])
                /\ MedianaOrdenada(entrada[i].vals) /= MedianaOrdenada(antes)

\* C3: limpiar_datos applied to its own output returns the same table: the
\* same columns under the same names, the same rows, the same cells.
C3_Idempotente ==
    pc = "limpio" => limpiar_datos(variant, df) = Return(df)

\* the label of a category cell
Etiqueta(cell, s) == ~isna(cell) /\ cell[1].txt = s

\* C4 as amended: Corta iff 0 <= d < 100, Media iff 100 <= d < 300, Larga iff
\* 300 <= d and d is finite; a missing, a negative or an infinite duration
\* gets no category.
C4_Cubetas ==
    pc = "transformado" =>
        \A r \in 1..NRows(df) :
            LET d == Col(df, duracion_llamada).vals[r]
                c == Col(df, categoria_duracion).vals[r]
            IN  IF isna(d) THEN isna(c)
                ELSE /\ Etiqueta(c, "Corta") <=> (0 <= d[1] /\ d[1] < 100 * Unit)
                     /\ Etiqueta(c, "Media") <=> (100 * Unit <= d[1] /\ d[1] < 300 * Unit)
                     /\ Etiqueta(c, "Larga") <=> (300 * Unit <= d[1] /\ d[1] < inf)
                     /\ (d[1] < 0 \/ d[1] = inf) => isna(c)
                     /\ isna(c) \/ Etiqueta(c, "Corta") \/ Etiqueta(c, "Media")
                            \/ Etiqueta(c, "Larga")

\* C4 as stated: Larga iff d >= 300, whatever d is.
C4_Original ==
    pc = "transformado" =>
        \A r \in 1..NRows(df) :
            LET d == Col(df, duracion_llamada).vals[r]
                c == Col(df, categoria_duracion).vals[r]
            IN  IF isna(d) THEN isna(c)
                ELSE /\ Etiqueta(c, "Corta") <=> (0 <= d[1] /\ d[1] < 100 * Unit)
                     /\ Etiqueta(c, "Media") <=> (100 * Unit <= d[1] /\ d[1] < 300 * Unit)
                     /\ Etiqueta(c, "Larga") <=> (300 * Unit <= d[1])
                     /\ d[1] < 0 => isna(c)

\* a duration on the edge between Corta and Media has been bucketed
C4_Witness ==
    /\ pc = "transformado"
    /\ \E r \in 1..NRows(df) :
          /\ Col(df, duracion_llamada).vals[r] = <<100 * Unit>>
          /\ Etiqueta(Col(df, categoria_duracion).vals[r], "Media")

\* the calendar day of a timestamp
Fecha(t) == t \div HoursPerDay

\* C5: for a row with both dates, dias_desde_registro is the number of
\* calendar days from the date of fecha_registro to the date of
\* fecha_contacto, the time of day ignored; with a date missing it is missing.
C5_DiasDeCalendario ==
    pc = "transformado" =>
        \A r \in 1..NRows(df) :
            LET a == Col(df, fecha_registro).vals[r]
                b == Col(df, fecha_contacto).vals[r]
                n == Col(df, dias_desde_registro).vals[r]
            IN  IF isna(a) \/ isna(b) THEN isna(n)
                ELSE n = <<(Fecha(b[1]) - Fecha(a[1])) * Unit>>

\* C6: with no file at the input path cargar_datos returns None and raises
\* nothing, and the run is over: nothing cleaned, transformed, saved or drawn.
C6_ArchivoAusente ==
    (disk[ruta_csv].kind = "absent" /\ pc /= "inicio") =>
        /\ df = None
        /\ exc = "none"
        /\ pc = "fin"
        /\ stdout = <<"Error: Archivo no encontrado.">>
        /\ \A p \in Paths : disk[p].kind = "absent"
        /\ charts = 0
        /\ ~ENABLED Next

C6_Witness ==
    /\ disk[ruta_csv].kind = "absent"
    /\ pc = "fin"

\* C7: limpiar_datos never raises because a column it names is absent.
C7_NuncaKeyError ==
    ~(/\ pc = "abortado"
      /\ exc = "KeyError"
      /\ stdout = <<"Datos cargados correctamente.">>)

\* the order of the stages: what may follow what
Orden ==
    {<<"inicio", "cargado">>, <<"inicio", "fin">>, <<"inicio", "abortado">>,
     <<"cargado", "limpio">>, <<"cargado", "abortado">>,
     <<"limpio", "transformado">>, <<"limpio", "abortado">>,
     <<"transformado", "guardado">>,
     <<"guardado", "fin">>, <<"guardado", "abortado">>}

\* C8: the stages run in the order Loader, Cleaner, Transformer, save,
\* Visualizer, each after the one before it returned; the only write to disk
\* is the transformed table, to the output path (the input path in the primary
\* variant), made before any chart; charts are drawn only with that file
\* written; nothing follows a failure.
C8_OrdenDeEtapas ==
    [][/\ pc' /= pc => <<pc, pc'>> \in Orden
       /\ pc \in {"abortado", "fin"} => UNCHANGED vars
       /\ disk' /= disk =>
             /\ pc = "transformado" /\ pc' = "guardado"
             /\ exc = "none" /\ charts = 0
             /\ disk' = [disk EXCEPT ![ruta_salida(variant)] = Csv(to_csv(df))]
             /\ variant = "final" => disk'[ruta_csv] = Csv(to_csv(df))
       /\ charts' /= charts =>
             /\ pc = "guardado"
             /\ disk[ruta_salida(variant)] = Csv(to_csv(df))
             /\ disk' = disk]_vars

\* a run that drew every chart
C8_Witness ==
    /\ pc = "fin"
    /\ charts = 5
    /\ disk[ruta_salida(variant)].kind = "csv"

\* C9: once limpiar_datos has returned, every column name is lowercase and
\* has no space, none is a source name of the rename mapping, and each kept
\* input column stands, in order, under the target of its normalised name, or
\* under its normalised name when the mapping has no such source.
C9_NombresNormalizados ==
    pc = "limpio" =>
        \A kept \in {SelectSeq(Entrada,
                               LAMBDA c : c.name \notin columnas_a_eliminar(variant))} :
            /\ \A i \in 1..Len(df) :
                  /\ \A j \in 1..Len(df[i].name) :
                        /\ df[i].name[j] /= " "
                        /\ \A u \in 1..Len(UpperCase) : df[i].name[j] /= UpperCase[u]
                  /\ \A p \in columnas_traducidas : df[i].name /= p[1]
            /\ Len(df) = Len(kept)
            /\ \A i \in 1..Len(kept) :
                  \A n \in {str_replace(str_lower(kept[i].name))} :
                      \/ \E p \in columnas_traducidas : p[1] = n /\ df[i].name = p[2]
                      \/ /\ \A p \in columnas_traducidas : p[1] /= n
                         /\ df[i].name = n

\* a column with an upper-case letter and a space in its header, renamed
C9_Witness ==
    /\ pc = "limpio"
    /\ \E entrada \in {Entrada} :
          /\ \E i \in 1..Len(entrada) :
                /\ \E j \in 1..Len(entrada[i].name) : entrada[i].name[j] = " "
                /\ \E j \in 1..Len(entrada[i].name) : entrada[i].name[j] = "D"
                /\ Destino(entrada[i].name) = fecha_registro
          /\ \E i \in 1..Len(entrada) :
                /\ \E j \in 1..Len(entrada[i].name) : entrada[i].name[j] = "Y"
                /\ \A p \in columnas_traducidas : p[1] /= Destino(entrada[i].name)
                /\ HasCol(df, Destino(entrada[i].name))

\* the other variant
Otra(v) == IF v = "final" THEN "borrador" ELSE "final"

\* a date, or a duration, is missing in the frame the Cleaner returned
FaltaFecha(limpio) ==
    \E r \in 1..NRows(limpio) : \E f \in fechas : isna(Col(limpio, f).vals[r])

FaltaDuracion(limpio) ==
    \E r \in 1..NRows(limpio) : isna(Col(limpio, duracion_llamada).vals[r])

\* two results with the same rows: the same cells in every column of the
\* one that the other has too, the two derived columns among them
MismoResultado(a, b) ==
    /\ NRows(a) = NRows(b)
    /\ \A i \in 1..Len(a) :
          HasCol(b, a[i].name) => Col(b, a[i].name).vals = a[i].vals
    /\ \A n \in {dias_desde_registro, categoria_duracion} : HasCol(a, n) /\ HasCol(b, n)

\* C10 as amended: the two variants differ on an input exactly when a date
\* is missing after the Cleaner's pass (the draft drops those rows); a missing
\* duration alone makes no difference, and with no date missing they give the
\* same rows with the same dias_desde_registro and categoria_duracion.
C10_VariantesDifieren ==
    pc = "transformado" =>
        \A entrada \in {Entrada} :
        \A limpio \in {limpiar_datos(variant, entrada).frame} :
        \A otro \in {limpiar_datos(Otra(variant), entrada)} :
        \A res \in {transformar_datos(Otra(variant), otro.frame)} :
            /\ otro.raised = "none" /\ res.raised = "none"
            /\ FaltaFecha(limpio) => ~MismoResultado(df, res.frame)
            /\ ~FaltaFecha(limpio) => MismoResultado(df, res.frame)

\* C10 as stated: a missing duration after the Cleaner's pass makes the
\* variants differ too.
C10_Original ==
    pc = "transformado" =>
        \A entrada \in {Entrada} :
        \A limpio \in {limpiar_datos(variant, entrada).frame} :
        \A otro \in {limpiar_datos(Otra(variant), entrada)} :
        \A res \in {transformar_datos(Otra(variant), otro.frame)} :
            /\ (FaltaFecha(limpio) \/ FaltaDuracion(limpio))
                  => ~MismoResultado(df, res.frame)
            /\ ~(FaltaFecha(limpio) \/ FaltaDuracion(limpio))
                  => MismoResultado(df, res.frame)

\* a table with a date missing after the Cleaner and a row left by the draft
C10_Witness ==
    /\ pc = "transformado"
    /\ variant = "borrador"
    /\ NRows(df) >= 1
    /\ \E limpio \in {limpiar_datos(variant, Entrada).frame} :
          FaltaFecha(limpio) /\ NRows(df) < NRows(limpio)

====
